---- MODULE Spec2Model ----
(***************************************************************************)
(* Model of noise_audit.py: calculate_noise_stats and the command-line     *)
(* entry point.                                                            *)
(*                                                                         *)
(* Python floats are IEEE-754 binary64 values.  The statistics are decided *)
(* by the roundings of +, -, /, ** 2, math.sqrt and round(x, 2), so the    *)
(* model computes them bit-exactly: a float is a sign, a 53-bit mantissa   *)
(* (a natural number kept as 15-bit limbs, least significant first) and a  *)
(* binary exponent, and every operation rounds its exact result to the     *)
(* nearest float, ties to even.                                            *)
(***************************************************************************)
EXTENDS Integers, Sequences, FiniteSets, TLC

(***************************************************************************)
(* Natural numbers of any size: sequences of limbs, least significant      *)
(* first, no leading zero limb; << >> is zero.                             *)
(***************************************************************************)
LimbBits == 15
Base == 2 ^ LimbBits

Limb(a, i) == IF i <= Len(a) THEN a[i] ELSE 0

RECURSIVE BNorm(_)
BNorm(a) ==
  IF a = << >> THEN << >>
  ELSE IF a[Len(a)] # 0 THEN a
  ELSE BNorm(SubSeq(a, 1, Len(a) - 1))

BFromInt(k) ==
  IF k = 0 THEN << >>
  ELSE IF k < Base THEN << k >>
  ELSE IF k < Base * Base THEN << k % Base, k \div Base >>
  ELSE << k % Base, (k \div Base) % Base, k \div (Base * Base) >>

RECURSIVE BAddC(_, _, _, _)
BAddC(a, b, i, c) ==
  IF i > Len(a) /\ i > Len(b)
  THEN IF c = 0 THEN << >> ELSE << c >>
  ELSE LET s == Limb(a, i) + Limb(b, i) + c
       IN  << s % Base >> \o BAddC(a, b, i + 1, s \div Base)

BAdd(a, b) == BAddC(a, b, 1, 0)

RECURSIVE BSubC(_, _, _, _)
BSubC(a, b, i, c) ==
  IF i > Len(a) THEN << >>
  ELSE LET d == Limb(a, i) - Limb(b, i) - c
       IN  IF d < 0 THEN << d + Base >> \o BSubC(a, b, i + 1, 1)
           ELSE << d >> \o BSubC(a, b, i + 1, 0)

\* a - b for a >= b
BSub(a, b) == BNorm(BSubC(a, b, 1, 0))

RECURSIVE BCmpAt(_, _, _)
BCmpAt(a, b, i) ==
  IF i = 0 THEN 0
  ELSE IF a[i] < b[i] THEN -1
  ELSE IF a[i] > b[i] THEN 1
  ELSE BCmpAt(a, b, i - 1)

\* -1, 0, 1 as a < b, a = b, a > b
BCmp(a, b) ==
  IF Len(a) < Len(b) THEN -1
  ELSE IF Len(a) > Len(b) THEN 1
  ELSE BCmpAt(a, b, Len(a))

RECURSIVE BMulSmallC(_, _, _, _)
BMulSmallC(a, k, i, c) ==
  IF i > Len(a)
  THEN IF c = 0 THEN << >> ELSE << c >>
  ELSE LET s == a[i] * k + c
       IN  << s % Base >> \o BMulSmallC(a, k, i + 1, s \div Base)

\* a * k for 0 <= k < Base
BMulSmall(a, k) == IF k = 0 THEN << >> ELSE BMulSmallC(a, k, 1, 0)

Zeros(n) == [i \in 1..n |-> 0]

BShlLimbs(a, n) == IF a = << >> THEN << >> ELSE Zeros(n) \o a

RECURSIVE BMulAt(_, _, _)
BMulAt(a, b, j) ==
  IF j > Len(b) THEN << >>
  ELSE BAdd(BShlLimbs(BMulSmall(a, b[j]), j - 1), BMulAt(a, b, j + 1))

BMul(a, b) == BMulAt(a, b, 1)

RECURSIVE BDivSmallAt(_, _, _, _)
\* limbs i..1 of a divided by k with incoming remainder r: <<quotient limbs, high first>>, remainder
BDivSmallAt(a, k, i, r) ==
  IF i = 0 THEN [q |-> << >>, r |-> r]
  ELSE LET cur  == r * Base + a[i]
           rest == BDivSmallAt(a, k, i - 1, cur % k)
       IN  [q |-> rest.q \o << cur \div k >>, r |-> rest.r]

\* quotient and remainder of a by k, 0 < k < Base
BDivSmall(a, k) ==
  LET d == BDivSmallAt(a, k, Len(a), 0)
  IN  [q |-> BNorm(d.q), r |-> d.r]

\* a * 2^s
BShl(a, s) == BShlLimbs(BMulSmall(a, 2 ^ (s % LimbBits)), s \div LimbBits)

\* floor(a / 2^s)
BShr(a, s) ==
  LET n == s \div LimbBits
  IN  IF n >= Len(a) THEN << >>
      ELSE BDivSmall(SubSeq(a, n + 1, Len(a)), 2 ^ (s % LimbBits)).q

RECURSIVE IntBitLen(_)
IntBitLen(k) == IF k = 0 THEN 0 ELSE 1 + IntBitLen(k \div 2)

BBitLen(a) ==
  IF a = << >> THEN 0 ELSE LimbBits * (Len(a) - 1) + IntBitLen(a[Len(a)])

BIsOdd(a) == a # << >> /\ a[1] % 2 = 1

BOne == << 1 >>

(***************************************************************************)
(* Python float: IEEE-754 binary64.  A finite float is the record          *)
(* [s, m, e] with value (-1)^s * m * 2^e; m has exactly MantBits bits, or  *)
(* fewer at the least exponent MinExp (subnormal); zero has m = << >> and  *)
(* e = 0.  An overflowed result is Inf(s).  The same record with any m is  *)
(* an exact (unrounded) dyadic number; the D-operators compute on those    *)
(* without rounding.                                                       *)
(***************************************************************************)
MantBits == 53
MinExp == -1074
MaxExp == 1024
InfExp == MaxExp + 1

Dy(s, m, e) == IF m = << >> THEN [s |-> s, m |-> << >>, e |-> 0] ELSE [s |-> s, m |-> m, e |-> e]
FZero == [s |-> 0, m |-> << >>, e |-> 0]
Inf(s) == [s |-> s, m |-> BOne, e |-> InfExp]
IsInf(x) == x.e = InfExp
IsZero(x) == x.m = << >>

DNeg(x) == [x EXCEPT !.s = 1 - x.s]
DAbs(x) == [x EXCEPT !.s = 0]

Min2(a, b) == IF a <= b THEN a ELSE b
Max2(a, b) == IF a >= b THEN a ELSE b

\* the mantissa of x at the (not larger) exponent e
MantAt(x, e) == IF x.e = e THEN x.m ELSE BShl(x.m, x.e - e)

\* exact x + y
DAdd(x, y) ==
  IF IsZero(x) THEN (IF IsZero(y) THEN [s |-> x.s * y.s, m |-> << >>, e |-> 0] ELSE y)
  ELSE IF IsZero(y) THEN x
  ELSE LET e  == Min2(x.e, y.e)
           mx == MantAt(x, e)
           my == MantAt(y, e)
           c  == BCmp(mx, my)
       IN  IF x.s = y.s THEN Dy(x.s, BAdd(mx, my), e)
           ELSE IF c = 0 THEN FZero
           ELSE IF c > 0 THEN Dy(x.s, BSub(mx, my), e)
           ELSE Dy(y.s, BSub(my, mx), e)

DSub(x, y) == DAdd(x, DNeg(y))

\* exact x * y
DMul(x, y) ==
  IF IsZero(x) \/ IsZero(y) THEN [s |-> (x.s + y.s) % 2, m |-> << >>, e |-> 0]
  ELSE Dy((x.s + y.s) % 2, BMul(x.m, y.m), x.e + y.e)

\* exact x * k for a small natural k
DMulInt(x, k) == Dy(x.s, BMulSmall(x.m, k), x.e)

\* exact x * 2^k
DScale(x, k) == Dy(x.s, x.m, x.e + k)

DInt(k) == Dy(0, BFromInt(k), 0)

\* -1, 0, 1 as x < y, x = y, x > y (the zeros are equal)
DCmp(x, y) ==
  LET d == DSub(x, y)
  IN  IF IsZero(d) THEN 0 ELSE IF d.s = 1 THEN -1 ELSE 1

DLe(x, y) == DCmp(x, y) <= 0
DLt(x, y) == DCmp(x, y) < 0
DEq(x, y) == DCmp(x, y) = 0

\* The float nearest to m * 2^e (sticky: plus a positive amount below one
\* unit of m), ties to even; Inf when it is 2^MaxExp or more.
FRound(s, m, e, sticky) ==
  IF m = << >> THEN [s |-> s, m |-> << >>, e |-> 0]
  ELSE
    LET p     == BBitLen(m)
        E     == Max2(e + p - MantBits, MinExp)
        shift == E - e
    IN  IF shift <= 0
        THEN IF E + MantBits > MaxExp THEN Inf(s)
             ELSE [s |-> s, m |-> BShl(m, -shift), e |-> E]
        ELSE
          LET q    == BShr(m, shift)
              rem  == BSub(m, BShl(q, shift))
              c    == BCmp(rem, BShl(BOne, shift - 1))
              up   == c > 0 \/ (c = 0 /\ (sticky \/ BIsOdd(q)))
              q1   == IF up THEN BAdd(q, BOne) ELSE q
              over == BBitLen(q1) > MantBits
              m2   == IF over THEN BShr(q1, 1) ELSE q1
              e2   == IF over THEN E + 1 ELSE E
          IN  IF m2 = << >> THEN [s |-> s, m |-> << >>, e |-> 0]
              ELSE IF e2 + MantBits > MaxExp THEN Inf(s)
              ELSE [s |-> s, m |-> m2, e |-> e2]

FOfD(d) == FRound(d.s, d.m, d.e, FALSE)

\* the float nearest to (-1)^s * n / d * 2^e, for a small natural d > 0:
\* float(str) of a decimal literal, and true division by a small integer
FromRatio(s, n, d, e) ==
  IF n = << >> THEN [s |-> s, m |-> << >>, e |-> 0]
  ELSE LET k  == Max2(0, MantBits + LimbBits + 2 - BBitLen(n))
           qr == BDivSmall(BShl(n, k), d)
       IN  FRound(s, qr.q, e - k, qr.r # 0)

\* x + y, x - y, x * y on floats
FAdd(x, y) == FOfD(DAdd(x, y))
FSub(x, y) == FOfD(DSub(x, y))
FMul(x, y) == FOfD(DMul(x, y))

\* x / n for a float x and an integer n > 0
FDivInt(x, n) == FromRatio(x.s, x.m, n, x.e)

RECURSIVE ISqrtInt(_, _, _)
\* the largest r + (bits up to b) whose square is at most the integer v < 2^30
ISqrtInt(v, r, b) ==
  IF b = 0 \/ r < 0 THEN r
  ELSE ISqrtInt(v, IF (r + b) * (r + b) <= v THEN r + b ELSE r, b \div 2)

RECURSIVE SqrtFit(_, _, _)
\* the largest digit d' <= d with (r2b + d') * d' <= rem
SqrtFit(r2b, rem, d) ==
  IF d = 0 \/ BCmp(BMulSmall(BAdd(r2b, BFromInt(d)), d), rem) <= 0 THEN d
  ELSE SqrtFit(r2b, rem, d - 1)

\* One step of the schoolbook square root in base Base: from the root r and
\* remainder rem of the limbs so far, and the next two limbs hi, lo, the
\* root and remainder with them.  The top limb of r is at least Base / 2.
SqrtStep(r, rem, hi, lo) ==
  LET rem1 == BAdd(BShlLimbs(rem, 2), BNorm(<< lo, hi >>))
  IN  IF r = << >>
      THEN LET d == ISqrtInt(hi * Base + lo, 0, Base \div 2)
           IN  [r |-> BFromInt(d), rem |-> BSub(rem1, BFromInt(d * d))]
      ELSE LET n    == Len(r)
               u    == BShr(rem1, LimbBits + 1)
               qhat == Min2(Base - 1, (Limb(u, n + 1) * Base + Limb(u, n)) \div r[n])
               r2b  == BShl(r, LimbBits + 1)
               d    == SqrtFit(r2b, rem1, qhat)
           IN  [r   |-> << d >> \o r,
                rem |-> BSub(rem1, BMulSmall(BAdd(r2b, BFromInt(d)), d))]

RECURSIVE SqrtPairs(_, _)
\* root and remainder of the limbs 2j-1 .. Len(m) of m
SqrtPairs(m, j) ==
  IF 2 * j > Len(m) THEN [r |-> << >>, rem |-> << >>]
  ELSE LET prev == SqrtPairs(m, j + 1)
       IN  SqrtStep(prev.r, prev.rem, m[2 * j], m[2 * j - 1])

\* floor of the square root of m and what is left, m - r * r, for m of an
\* even number of limbs whose top two limbs hold at least Base^2 / 4
ISqrtRem(m) == SqrtPairs(m, 1)

SqrtBits == 8 * LimbBits

\* math.sqrt(x) for x >= 0: correctly rounded
FSqrt(x) ==
  IF IsZero(x) THEN x
  ELSE LET k0 == SqrtBits - BBitLen(x.m)
           k  == IF (x.e - k0) % 2 = 0 THEN k0 ELSE k0 - 1
           s  == ISqrtRem(BShl(x.m, k))
       IN  FRound(0, s.r, (x.e - k) \div 2, s.rem # << >>)

\* round(x, 2): the decimal with two places nearest to the exact value of x,
\* ties to the even last digit, converted back to the nearest float
Round2(x) ==
  IF IsZero(x) \/ x.e >= 0 THEN x
  ELSE LET T    == BMulSmall(x.m, 100)
           sh   == -x.e
           q    == BShr(T, sh)
           rem  == BSub(T, BShl(q, sh))
           c    == BCmp(rem, BShl(BOne, sh - 1))
           Q    == IF c > 0 \/ (c = 0 /\ BIsOdd(q)) THEN BAdd(q, BOne) ELSE q
       IN  FromRatio(x.s, Q, 100, 0)

(***************************************************************************)
(* Command-line tokens and float(str).  A numeric token is a decimal       *)
(* literal, digits * 10^exp10; "abc" is a token float() rejects.           *)
(***************************************************************************)
NumToks == {"0.004", "0.05", "0.2", "4", "9000000000000002", "1e200"}
BadTok == "abc"
TargetToks == {"0", "0.2"}

Lit(tok) ==
  CASE tok = "0"     -> [digits |-> << 0 >>, exp10 |-> 0]
    [] tok = "0.004" -> [digits |-> << 4 >>, exp10 |-> -3]
    [] tok = "0.05"  -> [digits |-> << 5 >>, exp10 |-> -2]
    [] tok = "0.2"   -> [digits |-> << 2 >>, exp10 |-> -1]
    [] tok = "4"     -> [digits |-> << 4 >>, exp10 |-> 0]
    [] tok = "9000000000000002"
                     -> [digits |-> << 9, 0, 0, 0, 0, 0, 0, 0, 0, 0, 0, 0, 0, 0, 0, 2 >>, exp10 |-> 0]
    [] tok = "1e200" -> [digits |-> << 1 >>, exp10 |-> 200]

RECURSIVE DigitsAt(_, _)
\* the natural number written by the first i digits
DigitsAt(ds, i) ==
  IF i = 0 THEN << >>
  ELSE BAdd(BMulSmall(DigitsAt(ds, i - 1), 10), BFromInt(ds[i]))

RECURSIVE BTimesPow10(_, _)
BTimesPow10(a, k) ==
  IF k = 0 \/ Len(a) < 0 THEN a
  ELSE IF k >= 4 THEN BTimesPow10(BMulSmall(a, 10000), k - 4)
  ELSE BTimesPow10(BMulSmall(a, 10), k - 1)

\* float(tok): the float nearest to the decimal literal
ParseFloat(tok) ==
  LET l == Lit(tok)
      n == DigitsAt(l.digits, Len(l.digits))
  IN  IF l.exp10 >= 0 THEN FRound(0, BTimesPow10(n, l.exp10), 0, FALSE)
      ELSE FromRatio(0, n, 10 ^ (-l.exp10), 0)

IsFloatTok(tok) == tok \in NumToks \cup TargetToks

(***************************************************************************)
(* calculate_noise_stats, step by step.                                    *)
(***************************************************************************)
\* None, where a float may stand
None == [s |-> 2, m |-> << >>, e |-> 0]

RECURSIVE SumFrom(_, _, _)
SumFrom(xs, i, acc) ==
  IF i > Len(xs) \/ acc.s < 0 THEN acc ELSE SumFrom(xs, i + 1, FAdd(acc, xs[i]))

\* sum(xs): from 0, left to right, each partial sum rounded
Sum(xs) == SumFrom(xs, 1, FZero)

\* a slip: `if scores is None`, which an empty list passes
IsEmpty_IsNone(scores) == FALSE

\* `not scores`
IsEmpty(scores) == Len(scores) = 0

\* a slip: the sum, never divided by n
MeanOf_NoDivide(scores) == Sum(scores)

\* sum(scores) / n
MeanOf(scores) == FDivInt(Sum(scores), Len(scores))

\* x ** 2: Inf stands for the OverflowError float.__pow__ raises
Sq(x) == FMul(x, x)

SqDevs(scores, mean) == [i \in 1..Len(scores) |-> Sq(FSub(scores[i], mean))]

Overflows(xs) == \E i \in 1..Len(xs) : IsInf(xs[i])

\* sum((x - mean) ** 2 for x in scores) / n
VarianceOf(scores, mean) == FDivInt(Sum(SqDevs(scores, mean)), Len(scores))

\* a slip: the square root forgotten
StdDevOf_NoSqrt(variance) == variance

\* math.sqrt(variance)
StdDevOf(variance) == FSqrt(variance)

\* x < y on floats
FLt(x, y) == DLt(x, y)

RECURSIVE Insert(_, _)
\* x put into the ascending xs after the elements not greater than it
Insert(xs, x) ==
  IF xs = << >> THEN << x >>
  ELSE IF FLt(x, xs[Len(xs)]) THEN Insert(SubSeq(xs, 1, Len(xs) - 1), x) \o << xs[Len(xs)] >>
  ELSE xs \o << x >>

RECURSIVE SortedAt(_, _)
SortedAt(xs, i) == IF i = 0 THEN << >> ELSE Insert(SortedAt(xs, i - 1), xs[i])

\* sorted(scores): a new ascending list, stable
Sorted(scores) == SortedAt(scores, Len(scores))

\* a slip: the lower middle, (n - 1) // 2
MedianIndex_Lower(n) == ((n - 1) \div 2) + 1

\* the index n // 2, in a list counted from 1
MedianIndex(n) == (n \div 2) + 1

\* sorted(scores)[n // 2]
MedianOf(scores) == Sorted(scores)[MedianIndex(Len(scores))]

\* a slip: scores.sort(), which sorts the caller's list in place
ScoresAfterSorted_InPlace(scores) == Sorted(scores)

\* the caller's list after sorted(scores): sorted() copies, the list is as it was
ScoresAfterSorted(scores) == scores

\* a slip: `if target_value:`, which a target of 0 fails
TargetSupplied_Truthy(target) == target # None /\ ~IsZero(target)

\* `target_value is not None`
TargetSupplied(target) == target # None

\* mean - target_value
BiasOf(mean, target) == FSub(mean, target)

\* a slip: bias squared plus the standard deviation
MseOf_StdDev(bias, variance) == FAdd(Sq(bias), FSqrt(variance))

\* (bias ** 2) + variance
MseOf(bias, variance) == FAdd(Sq(bias), variance)

ErrorResult == [error |-> "No scores provided"]

\* the dict of lines 32-38
BaseResult(mean, median, std_dev, variance, raw) ==
  [mean |-> Round2(mean), median |-> median, std_dev |-> Round2(std_dev),
   variance |-> Round2(variance), raw_scores |-> raw]

\* no dict yet
NoResult == [unset |-> TRUE]

\* What one call of calculate_noise_stats(scores, target) ends in: the
\* exception it raises ("none": it returns) and the dict it returns.
Outcome(scores, target) ==
  IF IsEmpty(scores) THEN [raised |-> "none", result |-> ErrorResult]
  ELSE
    LET mean == MeanOf(scores)
        devs == SqDevs(scores, mean)
        variance == VarianceOf(scores, mean)
        std_dev == StdDevOf(variance)
        base == BaseResult(mean, MedianOf(scores), std_dev, variance, ScoresAfterSorted(scores))
        bias == BiasOf(mean, target)
        mse == MseOf(bias, variance)
    IN  IF Overflows(devs) THEN [raised |-> "OverflowError", result |-> NoResult]
        ELSE IF ~TargetSupplied(target) THEN [raised |-> "none", result |-> base]
        ELSE IF IsInf(Sq(bias)) THEN [raised |-> "OverflowError", result |-> NoResult]
        ELSE [raised |-> "none",
              result |-> base @@ [mse |-> Round2(mse), bias_component |-> Round2(bias)]]

(***************************************************************************)
(* The command line: what sys.argv holds for --scores and --target.        *)
(***************************************************************************)
MaxLen == 3

RECURSIVE SeqsUpTo(_, _)
\* the sequences over S of length at most k
SeqsUpTo(S, k) ==
  IF k = 0 THEN {<< >>}
  ELSE LET shorter == SeqsUpTo(S, k - 1)
       IN  shorter \cup {Append(s, x) : s \in shorter, x \in S}

ScoreFloats == {ParseFloat(tok) : tok \in NumToks}
TargetFloats == {ParseFloat(tok) : tok \in TargetToks}

\* the calls a program that imports the module can make
ApiScores == SeqsUpTo(ScoreFloats, MaxLen)
ApiTargets == {None} \cup TargetFloats

\* the command lines: --scores absent, or given with some tokens (none
\* included); --target absent, or given with one token
NoArgv == [hasScores |-> FALSE, scores |-> << >>, hasTarget |-> FALSE, target |-> ""]
Argvs ==
  [hasScores : {TRUE}, scores : SeqsUpTo(NumToks \cup {BadTok}, MaxLen),
   hasTarget : {TRUE}, target : TargetToks \cup {BadTok}]
  \cup [hasScores : {TRUE}, scores : SeqsUpTo(NumToks \cup {BadTok}, MaxLen),
        hasTarget : {FALSE}, target : {""}]
  \cup [hasScores : {FALSE}, scores : {<< >>},
        hasTarget : BOOLEAN, target : TargetToks \cup {BadTok}]

\* a slip: nargs="*", which takes --scores without values
UsageError_NargsStar(av) ==
  \/ ~av.hasScores
  \/ \E i \in 1..Len(av.scores) : ~IsFloatTok(av.scores[i])
  \/ av.hasTarget /\ ~IsFloatTok(av.target)

\* parser.parse_args() ends in parser.error(): --scores missing
\* (required=True), fewer values than nargs="+" asks for, a value float()
\* rejects (type=float), or a --target value float() rejects
UsageError(av) ==
  \/ ~av.hasScores
  \/ Len(av.scores) < 1
  \/ \E i \in 1..Len(av.scores) : ~IsFloatTok(av.scores[i])
  \/ av.hasTarget /\ ~IsFloatTok(av.target)

\* args.scores and args.target of an accepted command line
ParsedScores(av) == [i \in 1..Len(av.scores) |-> ParseFloat(av.scores[i])]
ParsedTarget(av) == IF av.hasTarget THEN ParseFloat(av.target) ELSE None

(***************************************************************************)
(* The state: one process, which either runs the script (mode "cli") or    *)
(* calls calculate_noise_stats itself (mode "api").                        *)
(***************************************************************************)
VARIABLES
  pc,        \* where the process is: "start", a line "L23".."L58", "raise", "done"
  mode,      \* "none", "api", "cli"
  argv,      \* the command line of a cli run
  args,      \* the arguments of the call, as passed: [scores, target]
  scores,    \* the list object passed as scores, as it is now
  target,    \* target_value
  n, mean, variance, std_dev, bias, mse,   \* the locals
  result,    \* the dict being built, then returned
  raised,    \* the exception in flight, "none" without one
  stdout,    \* the records printed
  exit,      \* the exit status of a cli run, -1 while it runs
  calls      \* the calls of calculate_noise_stats made

vars == << pc, mode, argv, args, scores, target, n, mean, variance, std_dev, bias, mse,
           result, raised, stdout, exit, calls >>

locals == << n, mean, variance, std_dev, bias, mse >>
io == << stdout, exit >>

NoArgs == [scores |-> << >>, target |-> None]

Init ==
  /\ pc = "start" /\ mode = "none" /\ argv = NoArgv /\ args = NoArgs
  /\ scores = << >> /\ target = None
  /\ n = 0 /\ mean = None /\ variance = None /\ std_dev = None /\ bias = None /\ mse = None
  /\ result = NoResult /\ raised = "none" /\ stdout = << >> /\ exit = -1 /\ calls = 0

\* calculate_noise_stats(s, t), called by an importing program
ApiCall(s, t) ==
  /\ pc = "start"
  /\ mode' = "api" /\ args' = [scores |-> s, target |-> t]
  /\ scores' = s /\ target' = t /\ calls' = calls + 1 /\ pc' = "L23"
  /\ UNCHANGED << argv, locals, result, raised, io >>

\* lines 51-55: the script parses its command line
ParseArgs(av) ==
  /\ pc = "start"
  /\ mode' = "cli" /\ argv' = av
  /\ IF UsageError(av)
     THEN /\ exit' = 2 /\ pc' = "done"
          /\ UNCHANGED args
     ELSE /\ args' = [scores |-> ParsedScores(av), target |-> ParsedTarget(av)]
          /\ pc' = "L57"
          /\ UNCHANGED exit
  /\ UNCHANGED << scores, target, locals, result, raised, stdout, calls >>

\* line 57: calculate_noise_stats(args.scores, args.target)
CliCall ==
  /\ pc = "L57"
  /\ scores' = args.scores /\ target' = args.target /\ calls' = calls + 1 /\ pc' = "L23"
  /\ UNCHANGED << mode, argv, args, locals, result, raised, io >>

\* lines 23-24
CheckEmpty ==
  /\ pc = "L23"
  /\ IF IsEmpty(scores)
     THEN result' = ErrorResult /\ pc' = "L48"
     ELSE UNCHANGED result /\ pc' = "L26"
  /\ UNCHANGED << mode, argv, args, scores, target, locals, raised, io, calls >>

\* lines 26-27
ComputeMean ==
  /\ pc = "L26"
  /\ n' = Len(scores)
  /\ IF Len(scores) = 0
     THEN raised' = "ZeroDivisionError" /\ pc' = "raise" /\ UNCHANGED mean
     ELSE mean' = MeanOf(scores) /\ pc' = "L29" /\ UNCHANGED raised
  /\ UNCHANGED << mode, argv, args, scores, target, variance, std_dev, bias, mse,
                  result, io, calls >>

\* lines 29-30
ComputeVariance ==
  /\ pc = "L29"
  /\ IF Overflows(SqDevs(scores, mean))
     THEN raised' = "OverflowError" /\ pc' = "raise" /\ UNCHANGED << variance, std_dev >>
     ELSE /\ variance' = VarianceOf(scores, mean)
          /\ std_dev' = StdDevOf(variance')
          /\ pc' = "L32" /\ UNCHANGED raised
  /\ UNCHANGED << mode, argv, args, scores, target, n, mean, bias, mse, result, io, calls >>

\* lines 32-38
BuildResult ==
  /\ pc = "L32"
  /\ scores' = ScoresAfterSorted(scores)
  /\ result' = BaseResult(mean, MedianOf(scores), std_dev, variance, scores')
  /\ pc' = "L40"
  /\ UNCHANGED << mode, argv, args, target, locals, raised, io, calls >>

\* lines 40-46
AddTarget ==
  /\ pc = "L40"
  /\ IF ~TargetSupplied(target)
     THEN pc' = "L48" /\ UNCHANGED << bias, mse, result, raised >>
     ELSE /\ bias' = BiasOf(mean, target)
          /\ IF IsInf(Sq(bias'))
             THEN raised' = "OverflowError" /\ pc' = "raise" /\ UNCHANGED << mse, result >>
             ELSE /\ mse' = MseOf(bias', variance)
                  /\ result' = result @@ [mse |-> Round2(mse'), bias_component |-> Round2(bias')]
                  /\ pc' = "L48" /\ UNCHANGED raised
  /\ UNCHANGED << mode, argv, args, scores, target, n, mean, variance, std_dev, io, calls >>

\* line 48 (and 24): the call returns result to its caller
Return ==
  /\ pc = "L48"
  /\ pc' = IF mode = "cli" THEN "L58" ELSE "done"
  /\ UNCHANGED << mode, argv, args, scores, target, locals, result, raised, io, calls >>

\* line 58: print(json.dumps(stats, indent=2)); the script ends
PrintStats ==
  /\ pc = "L58"
  /\ stdout' = Append(stdout, result) /\ exit' = 0 /\ pc' = "done"
  /\ UNCHANGED << mode, argv, args, scores, target, locals, result, raised, calls >>

\* an exception leaves calculate_noise_stats: the script has no handler and
\* dies with a traceback, status 1; an importing caller gets the exception
Propagate ==
  /\ pc = "raise"
  /\ exit' = IF mode = "cli" THEN 1 ELSE exit
  /\ pc' = "done"
  /\ UNCHANGED << mode, argv, args, scores, target, locals, result, raised, stdout, calls >>

Next ==
  \/ pc = "start" /\ \E s \in ApiScores, t \in ApiTargets : ApiCall(s, t)
  \/ pc = "start" /\ \E av \in Argvs : ParseArgs(av)
  \/ CliCall
  \/ CheckEmpty
  \/ ComputeMean
  \/ ComputeVariance
  \/ BuildResult
  \/ AddTarget
  \/ Return
  \/ PrintStats
  \/ Propagate

Spec == Init /\ [][Next]_vars

(***************************************************************************)
(* What the claims speak of.                                               *)
(***************************************************************************)
\* the call was made and has returned its dict to the caller
Returned == calls = 1 /\ raised = "none" /\ pc \in {"L58", "done"}

\* ... for a non-empty score sequence
ReturnedStats == Returned /\ args.scores # << >>

BaseKeys == {"mean", "median", "std_dev", "variance", "raw_scores"}
TargetKeys == {"mse", "bias_component"}

RECURSIVE MinAt(_, _)
MinAt(xs, i) ==
  IF i = 1 THEN xs[1]
  ELSE LET m == MinAt(xs, i - 1) IN IF DLt(xs[i], m) THEN xs[i] ELSE m

RECURSIVE MaxAt(_, _)
MaxAt(xs, i) ==
  IF i = 1 THEN xs[1]
  ELSE LET m == MaxAt(xs, i - 1) IN IF DLt(m, xs[i]) THEN xs[i] ELSE m

\* min(xs), max(xs), max(|x|) of a non-empty xs
MinOf(xs) == MinAt(xs, Len(xs))
MaxOf(xs) == MaxAt(xs, Len(xs))
MaxAbsOf(xs) == MaxAt([i \in 1..Len(xs) |-> DAbs(xs[i])], Len(xs))

\* the sequences that hold the elements of xs in another order
PermutationsOf(xs) ==
  {[i \in 1..Len(xs) |-> xs[p[i]]] : p \in Permutations(1..Len(xs))}

AllEqual(xs) == \A i \in 1..Len(xs) : xs[i] = xs[1]

\* C1: a call with an empty score sequence, with or without a target, does
\* not fail: it raises nothing, computes nothing, and returns the dict whose
\* only key is error, "No scores provided".
C1_EmptyGivesError ==
  (calls = 1 /\ args.scores = << >>) =>
    /\ raised = "none"
    /\ pc \in {"L23", "L48", "L58", "done"}
    /\ pc # "L23" => (DOMAIN result = {"error"} /\ result.error = "No scores provided")

\* C1: an importing caller has passed an empty list and a target, and the call has returned
C1_Witness ==
  /\ mode = "api" /\ pc = "done" /\ args.scores = << >> /\ args.target # None
  /\ DOMAIN result = {"error"}

C3_MedianIsUpperMiddle ==
  ReturnedStats =>
    LET xs == args.scores
        k  == Len(xs) \div 2
        m  == result.median
    IN  /\ \E i \in 1..Len(xs) : xs[i] = m
        /\ Cardinality({i \in 1..Len(xs) : DLt(xs[i], m)}) <= k
        /\ Cardinality({i \in 1..Len(xs) : DLe(xs[i], m)}) > k

\* C3: two different scores, and the median returned is the larger
C3_Witness ==
  /\ ReturnedStats /\ Len(args.scores) = 2
  /\ DLt(args.scores[1], args.scores[2])
  /\ result.median = args.scores[2]

\* C4: raw_scores of the dict returned is the score sequence as it was
\* passed, and the caller's list is as it was passed.
C4_RawScoresAndInputUnchanged ==
  ReturnedStats => (result.raw_scores = args.scores /\ scores = args.scores)

\* C4: a list that is not in ascending order was passed, and the call has returned
C4_Witness ==
  /\ ReturnedStats /\ Len(args.scores) = 3
  /\ DLt(args.scores[2], args.scores[1])
  /\ result.median # args.scores[2]

\* |variance - std_dev^2| of the dict returned, times 100, exactly
C5Gap100 == DMulInt(DAbs(DSub(result.variance, DMul(result.std_dev, result.std_dev))), 100)

C6_MseIsBiasSquaredPlusVariance ==
  (ReturnedStats /\ args.target # None) =>
    /\ bias = FSub(mean, args.target)
    /\ mse = FAdd(FMul(bias, bias), variance)
    /\ result.mse = Round2(mse)
    /\ result.bias_component = Round2(bias)

\* C6: a call with a target has returned, bias and variance are not 0 and
\* rounding changed the mse
C6_Witness ==
  /\ ReturnedStats /\ args.target # None
  /\ ~IsZero(bias) /\ ~IsZero(variance) /\ result.mse # mse

C8_PopulationVariance ==
  ReturnedStats =>
    /\ variance = FDivInt(Sum([i \in 1..Len(args.scores) |->
                                 FMul(FSub(args.scores[i], mean), FSub(args.scores[i], mean))]),
                          Len(args.scores))
    /\ std_dev = FSqrt(variance)
    /\ AllEqual(args.scores) => (IsZero(result.variance) /\ IsZero(result.std_dev))

\* the numbers of a result, its raw_scores apart
SameStats(r1, r2) ==
  /\ DOMAIN r1 = DOMAIN r2
  /\ \A k \in DOMAIN r1 \ {"raw_scores"} : DEq(r1[k], r2[k])

\* C9: the call on any permutation of the scores, with the same target,
\* returns the same mean, median, std_dev, variance, mse and bias_component.
C9_OrderIrrelevant ==
  ReturnedStats =>
    \A p \in PermutationsOf(args.scores) :
      LET o == Outcome(p, args.target)
      IN  o.raised = "none" /\ SameStats(o.result, result)

\* --scores is missing, has no values, or has a value that is no float
BadScores(av) ==
  \/ ~av.hasScores
  \/ Len(av.scores) = 0
  \/ \E i \in 1..Len(av.scores) : av.scores[i] = BadTok

\* a run that ended in a usage error: status 2, no call, nothing printed
EndedInUsageError == exit = 2 /\ calls = 0 /\ stdout = << >>

\* a run that called once, with scores, printed one record and ended with status 0
EndedInOneRecord ==
  /\ exit = 0 /\ calls = 1 /\ args.scores # << >> /\ Len(stdout) = 1

\* a run that called once, with scores, and died of the exception, status 1
EndedInTraceback ==
  /\ exit = 1 /\ calls = 1 /\ args.scores # << >> /\ stdout = << >>
  /\ raised = "OverflowError"

NeverPrintsError == \A i \in 1..Len(stdout) : "error" \notin DOMAIN stdout[i]

====
